---------------------------- MODULE Spec2Model ----------------------------
(***************************************************************************)
(* Model of the NLopt parameter-estimation engine of MSSPM                 *)
(* (MSSPM_ParameterEstimationNLoptAlgorithm/NLopt_Estimator.cpp).          *)
(*                                                                         *)
(* Conventions.                                                            *)
(*  - C++ vectors and ublas matrices are TLA+ sequences and sequences of   *)
(*    rows; the C++ index k (0-based) is the TLA+ index k+1.               *)
(*  - doubles are modelled by integers; NaN is the distinguished value     *)
(*    NaN, absorbing for the arithmetic used (Plus, Minus).                *)
(*  - the growth/harvest/competition/predation forms, the statistics       *)
(*    functions and the NLopt optimizer are external collaborators: what   *)
(*    they return is an input of the action that calls them.               *)
(***************************************************************************)
EXTENDS Integers, Sequences, FiniteSets, TLC

(***************************************************************************)
(* Bounds of the model.                                                    *)
(***************************************************************************)
MaxSpecies == 2
MaxBase == 1
MaxStride == 2
MaxRunLength == 2
MaxRuns == 2
MaxEvals == 2
\* evaluations per run in the long runs that reach the progress records
MaxCalls == 2000

(***************************************************************************)
(* Program constants.                                                      *)
(***************************************************************************)
\* const int DefaultFitness = 99999
DefaultFitness == 99999
\* if (m_NumObjFcnCalls%1000 == 0)
ProgressPeriod == 1000
\* the value for which std::isnan holds
NaN == 777777

(***************************************************************************)
(* Run configuration (Data_Struct): the form names.                        *)
(***************************************************************************)
GrowthForms      == {"Linear", "Logistic"}
HarvestForms     == {"Catch", "Effort (qE)"}
CompetitionForms == {"Null", "NO_K", "MS-PROD", "AGG-PROD"}
PredationForms   == {"Null", "Type I", "Type II", "Type III"}

\* GuildSpecies: guild index -> list of member species, a partition of the
\* species (species s belongs to guild ((s-1) % NumGuilds) + 1).
GuildMembers(ns, ng) ==
  [g \in 1..ng |->
     LET n == Cardinality({s \in 1..ns : ((s - 1) % ng) + 1 = g})
     IN  [k \in 1..n |-> g + (k - 1) * ng]]

Shapes ==
  {[NumSpecies |-> ns, NumGuilds |-> ng, GuildSpecies |-> GuildMembers(ns, ng)] :
     <<ns, ng>> \in {p \in (1..MaxSpecies) \X (1..MaxSpecies) : p[2] <= p[1]}}

(***************************************************************************)
(* ublas matrices.                                                         *)
(***************************************************************************)
\* nmfUtils::initialize(m, rows, cols): resize and fill with zeros
ZeroMatrix(rows, cols) == [i \in 1..rows |-> [j \in 1..cols |-> 0]]

\* boost::numeric::ublas::matrix::clear(): every entry 0, size kept
ClearMatrix(M) == [i \in DOMAIN M |-> [j \in DOMAIN M[i] |-> 0]]

EmptyMatrix == <<>>

size1(M) == Len(M)
size2(M) == IF Len(M) = 0 THEN 0 ELSE Len(M[1])

(***************************************************************************)
(* extractParameters (NLopt_Estimator.cpp 66-195).                         *)
(***************************************************************************)
\* (variant: every entry read from the first element of the segment)
RECURSIVE ReadVector_SameElement(_, _, _, _, _)
ReadVector_SameElement(v, EstParameters, offset, i, n) ==
  IF i >= n THEN v
  ELSE ReadVector_SameElement(Append(v, EstParameters[offset + 1]),
                              EstParameters, offset, i + 1, n)

\* for (i<n) v.emplace_back(EstParameters[offset+i])
RECURSIVE ReadVector(_, _, _, _, _)
ReadVector(v, EstParameters, offset, i, n) ==
  IF i >= n THEN v
  ELSE ReadVector(Append(v, EstParameters[offset + i + 1]),
                  EstParameters, offset, i + 1, n)

\* (variant: m restarts with every row)
RECURSIVE FillLoop_RowRestart(_, _, _, _, _, _, _, _)
FillLoop_RowRestart(M, EstParameters, offset, i, j, m, rows, cols) ==
  IF i >= rows THEN M
  ELSE IF j >= cols
       THEN FillLoop_RowRestart(M, EstParameters, offset, i + 1, 0, 0, rows, cols)
       ELSE FillLoop_RowRestart([M EXCEPT ![i + 1][j + 1] = EstParameters[offset + m + 1]],
                                EstParameters, offset, i, j + 1, m + 1, rows, cols)

\* m = 0; initialize(M,rows,cols);
\* for (i<rows) for (j<cols) M(i,j) = EstParameters[offset + (m++)]
RECURSIVE FillLoop(_, _, _, _, _, _, _, _)
FillLoop(M, EstParameters, offset, i, j, m, rows, cols) ==
  IF i >= rows THEN M
  ELSE IF j >= cols
       THEN FillLoop(M, EstParameters, offset, i + 1, 0, m, rows, cols)
       ELSE FillLoop([M EXCEPT ![i + 1][j + 1] = EstParameters[offset + m + 1]],
                     EstParameters, offset, i, j + 1, m + 1, rows, cols)

ReadMatrix(EstParameters, offset, rows, cols) ==
  FillLoop(ZeroMatrix(rows, cols), EstParameters, offset, 0, 0, 0, rows, cols)

\* (variant: offset = n)
AddOffset_Assign(offset, n) == n

\* offset += n
AddOffset(offset, n) == offset + n

\* The nine outputs of a freshly constructed caller: no element at all.
NoParameters ==
  [growthRate |-> <<>>, carryingCapacity |-> <<>>, catchabilityRate |-> <<>>,
   competitionAlpha |-> EmptyMatrix, competitionBetaSpecies |-> EmptyMatrix,
   competitionBetaGuilds |-> EmptyMatrix, predation |-> EmptyMatrix,
   handling |-> EmptyMatrix, exponent |-> <<>>, offset |-> 0]

\* 79-95: the flags and sizes
isLogistic(d)     == d.GrowthForm = "Logistic"
isCatchability(d) == d.HarvestForm = "Effort (qE)"
isAlpha(d)        == d.CompetitionForm = "NO_K"
isMSPROD(d)       == d.CompetitionForm = "MS-PROD"
isAGGPROD(d)      == d.CompetitionForm = "AGG-PROD"
isRho(d)          == d.PredationForm \in {"Type I", "Type II", "Type III"}
isHandling(d)     == d.PredationForm \in {"Type II", "Type III"}
isExponent(d)     == d.PredationForm = "Type III"
NumSpeciesOrGuilds(d) == IF isAGGPROD(d) THEN d.NumGuilds ELSE d.NumSpecies
MatrixSize(d)     == NumSpeciesOrGuilds(d) * NumSpeciesOrGuilds(d)

\* 97-105: the vectors emptied, the matrices zeroed in place; offset = 0
ClearOutputs(prev) ==
  [growthRate |-> <<>>, carryingCapacity |-> <<>>, catchabilityRate |-> <<>>,
   competitionAlpha |-> ClearMatrix(prev.competitionAlpha),
   competitionBetaSpecies |-> ClearMatrix(prev.competitionBetaSpecies),
   competitionBetaGuilds |-> ClearMatrix(prev.competitionBetaGuilds),
   predation |-> ClearMatrix(prev.predation),
   handling |-> ClearMatrix(prev.handling),
   exponent |-> <<>>, offset |-> 0]

\* 107-110
ExtractGrowthRate(d, EstParameters, o) ==
  [o EXCEPT !.growthRate = ReadVector(<<>>, EstParameters, 0, 0, NumSpeciesOrGuilds(d)),
            !.offset = AddOffset(@, NumSpeciesOrGuilds(d))]

\* 112-117
ExtractCarryingCapacity(d, EstParameters, o) ==
  IF isLogistic(d)
  THEN [o EXCEPT !.carryingCapacity =
                    ReadVector(<<>>, EstParameters, o.offset, 0, NumSpeciesOrGuilds(d)),
                 !.offset = AddOffset(@, NumSpeciesOrGuilds(d))]
  ELSE o

\* 119-124
ExtractCatchability(d, EstParameters, o) ==
  IF isCatchability(d)
  THEN [o EXCEPT !.catchabilityRate =
                    ReadVector(<<>>, EstParameters, o.offset, 0, NumSpeciesOrGuilds(d)),
                 !.offset = AddOffset(@, NumSpeciesOrGuilds(d))]
  ELSE o

\* 126-135
ExtractAlpha(d, EstParameters, o) ==
  IF isAlpha(d)
  THEN [o EXCEPT !.competitionAlpha =
                    ReadMatrix(EstParameters, o.offset, NumSpeciesOrGuilds(d),
                               NumSpeciesOrGuilds(d)),
                 !.offset = AddOffset(@, MatrixSize(d))]
  ELSE o

\* 137-145
ExtractBetaSpecies(d, EstParameters, o) ==
  IF isMSPROD(d)
  THEN [o EXCEPT !.competitionBetaSpecies =
                    ReadMatrix(EstParameters, o.offset, NumSpeciesOrGuilds(d),
                               NumSpeciesOrGuilds(d)),
                 !.offset = AddOffset(@, MatrixSize(d))]
  ELSE o

\* 146-153
ExtractBetaGuildsMSPROD(d, EstParameters, o) ==
  IF isMSPROD(d)
  THEN [o EXCEPT !.competitionBetaGuilds =
                    ReadMatrix(EstParameters, o.offset, NumSpeciesOrGuilds(d), d.NumGuilds),
                 !.offset = AddOffset(@, NumSpeciesOrGuilds(d) * d.NumGuilds)]
  ELSE o

\* 156-165
ExtractBetaGuildsAGGPROD(d, EstParameters, o) ==
  IF isAGGPROD(d)
  THEN [o EXCEPT !.competitionBetaGuilds =
                    ReadMatrix(EstParameters, o.offset, NumSpeciesOrGuilds(d), d.NumGuilds),
                 !.offset = AddOffset(@, NumSpeciesOrGuilds(d) * d.NumGuilds)]
  ELSE o

\* 167-176
ExtractPredation(d, EstParameters, o) ==
  IF isRho(d)
  THEN [o EXCEPT !.predation =
                    ReadMatrix(EstParameters, o.offset, NumSpeciesOrGuilds(d),
                               NumSpeciesOrGuilds(d)),
                 !.offset = AddOffset(@, MatrixSize(d))]
  ELSE o

\* 178-187
ExtractHandling(d, EstParameters, o) ==
  IF isHandling(d)
  THEN [o EXCEPT !.handling =
                    ReadMatrix(EstParameters, o.offset, NumSpeciesOrGuilds(d),
                               NumSpeciesOrGuilds(d)),
                 !.offset = AddOffset(@, MatrixSize(d))]
  ELSE o

\* 189-194
ExtractExponent(d, EstParameters, o) ==
  IF isExponent(d)
  THEN [o EXCEPT !.exponent =
                    ReadVector(<<>>, EstParameters, o.offset, 0, NumSpeciesOrGuilds(d)),
                 !.offset = AddOffset(@, NumSpeciesOrGuilds(d))]
  ELSE o

\* The whole function: prev holds the nine outputs as the caller passes
\* them in; the result holds them on return, with the final offset.
extractParameters(NLoptDataStruct, EstParameters, prev) ==
  ExtractExponent(NLoptDataStruct, EstParameters,
   ExtractHandling(NLoptDataStruct, EstParameters,
    ExtractPredation(NLoptDataStruct, EstParameters,
     ExtractBetaGuildsAGGPROD(NLoptDataStruct, EstParameters,
      ExtractBetaGuildsMSPROD(NLoptDataStruct, EstParameters,
       ExtractBetaSpecies(NLoptDataStruct, EstParameters,
        ExtractAlpha(NLoptDataStruct, EstParameters,
         ExtractCatchability(NLoptDataStruct, EstParameters,
          ExtractCarryingCapacity(NLoptDataStruct, EstParameters,
           ExtractGrowthRate(NLoptDataStruct, EstParameters,
            ClearOutputs(prev)))))))))))

(***************************************************************************)
(* Data_Struct: the run configuration handed to estimateParameters and,    *)
(* through the optimizer, to objectiveFunction.                            *)
(***************************************************************************)
Criteria == {"Least Squares", "Model Efficiency", "Maximum Likelihood", "Unknown"}
Scalings == {"Min Max", "Mean", "Unknown"}

MakeStruct(growth, harvest, competition, predation, shape, criterion, scaling, runLength) ==
  [GrowthForm |-> growth, HarvestForm |-> harvest,
   CompetitionForm |-> competition, PredationForm |-> predation,
   NumSpecies |-> shape.NumSpecies, NumGuilds |-> shape.NumGuilds,
   GuildSpecies |-> shape.GuildSpecies,
   ObjectiveCriterion |-> criterion, Scaling |-> scaling,
   RunLength |-> runLength,
   TotalNumberParameters |-> 0, BeesNumRepetitions |-> 1,
   showDiagnosticChart |-> FALSE]

\* Observed biomass, one row per year: species s has biomass s + year, and
\* a guild has the biomass of its members.
ObservedBiomassBySpecies(d) ==
  [t \in 1..(d.RunLength + 1) |-> [s \in 1..d.NumSpecies |-> s + t - 1]]

RECURSIVE SumOver(_, _)
SumOver(f, S) ==
  IF S = {} THEN 0
  ELSE LET e == CHOOSE e \in S : TRUE IN f[e] + SumOver(f, S \ {e})

ObservedBiomassByGuilds(d) ==
  [t \in 1..(d.RunLength + 1) |->
     [g \in 1..d.NumGuilds |->
        SumOver([k \in DOMAIN d.GuildSpecies[g] |->
                   ObservedBiomassBySpecies(d)[t][d.GuildSpecies[g][k]]],
                DOMAIN d.GuildSpecies[g])]]

(***************************************************************************)
(* loadParameterRanges of the four forms: the (lower, upper) pairs each    *)
(* form declares, one per parameter of the segments it owns.               *)
(***************************************************************************)
Range == <<0, 2>>

Pairs(n) == [k \in 1..n |-> Range]

SpeciesOrGuilds(d) ==
  IF d.CompetitionForm = "AGG-PROD" THEN d.NumGuilds ELSE d.NumSpecies

GrowthLoadParameterRanges(ranges, d) ==
  ranges \o Pairs(SpeciesOrGuilds(d))
         \o (IF d.GrowthForm = "Logistic" THEN Pairs(SpeciesOrGuilds(d)) ELSE <<>>)

HarvestLoadParameterRanges(ranges, d) ==
  ranges \o (IF d.HarvestForm = "Effort (qE)" THEN Pairs(SpeciesOrGuilds(d)) ELSE <<>>)

CompetitionLoadParameterRanges(ranges, d) ==
  LET n == SpeciesOrGuilds(d)
  IN  ranges \o
      (CASE d.CompetitionForm = "NO_K"     -> Pairs(n * n)
         [] d.CompetitionForm = "MS-PROD"  -> Pairs(n * n) \o Pairs(n * d.NumGuilds)
         [] d.CompetitionForm = "AGG-PROD" -> Pairs(n * d.NumGuilds)
         [] OTHER -> <<>>)

PredationLoadParameterRanges(ranges, d) ==
  LET n == SpeciesOrGuilds(d)
  IN  ranges \o
      (IF d.PredationForm \in {"Type I", "Type II", "Type III"} THEN Pairs(n * n) ELSE <<>>)
      \o (IF d.PredationForm \in {"Type II", "Type III"} THEN Pairs(n * n) ELSE <<>>)
      \o (IF d.PredationForm = "Type III" THEN Pairs(n) ELSE <<>>)

\* estimateParameters 539-545: the four calls in growth, harvest,
\* competition, predation order on one list
LoadParameterRanges(d) ==
  PredationLoadParameterRanges(
    CompetitionLoadParameterRanges(
      HarvestLoadParameterRanges(
        GrowthLoadParameterRanges(<<>>, d), d), d), d)

\* NumEstParameters = ParameterRanges.size()
NumEstParameters(d) == Len(LoadParameterRanges(d))


(***************************************************************************)
(* Arithmetic on doubles: NaN is absorbing and compares false.             *)
(***************************************************************************)
Plus(a, b)  == IF a = NaN \/ b = NaN THEN NaN ELSE a + b
Minus(a, b) == IF a = NaN \/ b = NaN THEN NaN ELSE a - b
Neg(a)      == IF a = NaN THEN NaN ELSE 0 - a
IsNaN(a)    == a = NaN
LessThan(a, b) == a # NaN /\ b # NaN /\ a < b

(***************************************************************************)
(* What the external collaborators return during one objectiveFunction     *)
(* call:                                                                   *)
(*   - the four evaluate() results for the cell (time, i): ext.special at  *)
(*     the cell ext.at, ext.default at every other cell;                   *)
(*   - ext.score: the value the statistics function returns;               *)
(*   - ext.garbage: the value an out-of-range read yields.                 *)
(***************************************************************************)
Steady  == [growth |-> 0, harvest |-> 0, competition |-> 0, predation |-> 0]
Grow    == [growth |-> 1, harvest |-> 0, competition |-> 0, predation |-> 0]
Decline == [growth |-> 0, harvest |-> 1, competition |-> 1, predation |-> 1]
Invalid == [growth |-> NaN, harvest |-> 0, competition |-> 0, predation |-> 0]

NoCell == <<0, 0>>

Terms(ext, time, i) == IF <<time, i>> = ext.at THEN ext.special ELSE ext.default

(***************************************************************************)
(* writeCurrentLoopFile (446-475): the record appended to the progress     *)
(* chart file.                                                             *)
(***************************************************************************)
writeCurrentLoopFile(MSSPMName, NumGens, BestFitness, ObjectiveCriterion, NumGensSinceBestFit) ==
  LET adjustedBestFitness ==
        IF ObjectiveCriterion = "Model Efficiency" THEN Neg(BestFitness) ELSE BestFitness
  IN  [name |-> MSSPMName, NumGens |-> NumGens,
       fitness |-> adjustedBestFitness, since |-> NumGensSinceBestFit]

(***************************************************************************)
(* incrementObjectiveFunctionCounter (380-444): the new value of           *)
(* m_NumObjFcnCalls and the progress records written.                      *)
(***************************************************************************)
\* (variant: the period tested on the counter before it is incremented)
incrementObjectiveFunctionCounter_TestBeforeIncrement(MSSPMName, fitness, NLoptDataStruct, NumObjFcnCalls) ==
  LET unused == -1
      calls  == NumObjFcnCalls + 1
  IN  [NumObjFcnCalls |-> calls,
       written |-> IF NumObjFcnCalls % ProgressPeriod = 0
                   THEN <<writeCurrentLoopFile(MSSPMName, calls, fitness,
                                               NLoptDataStruct.ObjectiveCriterion, unused)>>
                   ELSE <<>>]

incrementObjectiveFunctionCounter(MSSPMName, fitness, NLoptDataStruct, NumObjFcnCalls) ==
  LET unused == -1
      calls  == NumObjFcnCalls + 1
  IN  [NumObjFcnCalls |-> calls,
       written |-> IF calls % ProgressPeriod = 0
                   THEN <<writeCurrentLoopFile(MSSPMName, calls, fitness,
                                               NLoptDataStruct.ObjectiveCriterion, unused)>>
                   ELSE <<>>]

(***************************************************************************)
(* objectiveFunction (199-377).                                            *)
(***************************************************************************)
\* v[k] of a std::vector or a matrix row: an index past the end reads
\* whatever lies there
At(v, k, garbage) == IF k < Len(v) THEN v[k + 1] ELSE garbage

\* 269-278: guild and system carrying capacities
RECURSIVE GuildKLoop(_, _, _, _, _, _, _)
GuildKLoop(acc, i, j, guildK, NumGuilds, GuildSpecies, read) ==
  IF i >= NumGuilds THEN acc
  ELSE IF j >= Len(GuildSpecies[i + 1])
       THEN GuildKLoop([acc EXCEPT !.guildCarryingCapacity = Append(@, guildK)],
                       i + 1, 0, 0, NumGuilds, GuildSpecies, read)
       ELSE LET k == Plus(guildK, read[GuildSpecies[i + 1][j + 1] - 1])
            IN  GuildKLoop([acc EXCEPT !.systemCarryingCapacity = Plus(@, k)],
                           i, j + 1, k, NumGuilds, GuildSpecies, read)

\* 330-335: EstBiomassGuilds(time,g) += EstBiomassSpecies(time,member)
RECURSIVE GuildBiomassLoop(_, _, _, _, _, _, _, _)
GuildBiomassLoop(Guilds, Species, time, g, j, NumGuilds, GuildSpecies, garbage) ==
  IF g >= NumGuilds THEN Guilds
  ELSE IF j >= Len(GuildSpecies[g + 1])
       THEN GuildBiomassLoop(Guilds, Species, time, g + 1, 0, NumGuilds, GuildSpecies, garbage)
       ELSE GuildBiomassLoop(
              [Guilds EXCEPT ![time + 1][g + 1] =
                 Plus(@, At(Species[time + 1], GuildSpecies[g + 1][j + 1] - 1, garbage))],
              Species, time, g, j + 1, NumGuilds, GuildSpecies, garbage)

\* (variant: the std::isnan half of the test left out)
Aborts_NegativeOnly(EstBiomassVal) == LessThan(EstBiomassVal, 0)

\* 323: the abort test on the new biomass value
Aborts(EstBiomassVal) == LessThan(EstBiomassVal, 0) \/ IsNaN(EstBiomassVal)

\* 291-337: the year loop; st.cells lists the cells for which the four
\* evaluators were called, st.args the year index and the biomass value
\* they were given, st.vals the EstBiomassVal computed for each of them,
\* st.aborted tells whether 323-326 returned
\* 220: the index guildCarryingCapacity is read at; never assigned again
guildNum == 0

RECURSIVE SimLoop(_, _, _, _, _, _, _, _)
SimLoop(st, time, i, NumYears, numSpeciesOrGuilds, NumGuilds, GuildSpecies, ext) ==
  IF time >= NumYears THEN st
  ELSE IF i >= numSpeciesOrGuilds
       THEN SimLoop(st, time + 1, 0, NumYears, numSpeciesOrGuilds, NumGuilds, GuildSpecies, ext)
       ELSE LET timeMinus1 == time - 1
                prev == st.EstBiomassSpecies[timeMinus1 + 1][i + 1]
                t    == Terms(ext, time, i + 1)
                EstBiomassVal ==
                  Plus(prev, Minus(Minus(Minus(t.growth, t.harvest), t.competition), t.predation))
                called == [st EXCEPT !.cells = Append(@, <<time, i + 1>>),
                                     !.args = Append(@, [time |-> timeMinus1,
                                                         EstBiomassVal |-> prev,
                                                         guildK |-> At(st.guildCarryingCapacity,
                                                                       guildNum, ext.garbage)]),
                                     !.vals = Append(@, EstBiomassVal)]
            IN  IF Aborts(EstBiomassVal)
                THEN [called EXCEPT !.aborted = TRUE]
                ELSE LET Species == [st.EstBiomassSpecies EXCEPT ![time + 1][i + 1] = EstBiomassVal]
                         Guilds  == GuildBiomassLoop(st.EstBiomassGuilds, Species, time, 0, 0,
                                                     NumGuilds, GuildSpecies, ext.garbage)
                     IN  SimLoop([called EXCEPT !.EstBiomassSpecies = Species,
                                                !.EstBiomassGuilds = Guilds],
                                 time, i + 1, NumYears, numSpeciesOrGuilds, NumGuilds,
                                 GuildSpecies, ext)

\* The record of a call in which nothing has been done yet
NoEvaluation ==
  [thrown |-> "none", ret |-> 0, extracted |-> FALSE, params |-> NoParameters,
   guildCarryingCapacity |-> <<>>, systemCarryingCapacity |-> 0,
   EstBiomassSpecies |-> EmptyMatrix, EstBiomassGuilds |-> EmptyMatrix,
   cells |-> <<>>, args |-> <<>>, vals |-> <<>>, aborted |-> FALSE, rescaled |-> "none", scored |-> "none",
   statistic |-> "none", NumObjFcnCalls |-> 0, written |-> <<>>]

\* 254-262: the matrices handed to extractParameters
InitializedOutputs(d) ==
  [NoParameters EXCEPT
     !.competitionAlpha       = ZeroMatrix(NumSpeciesOrGuilds(d), NumSpeciesOrGuilds(d)),
     !.competitionBetaSpecies = ZeroMatrix(d.NumSpecies, d.NumSpecies),
     !.competitionBetaGuilds  = ZeroMatrix(NumSpeciesOrGuilds(d), d.NumGuilds),
     !.predation              = ZeroMatrix(NumSpeciesOrGuilds(d), NumSpeciesOrGuilds(d)),
     !.handling               = ZeroMatrix(NumSpeciesOrGuilds(d), NumSpeciesOrGuilds(d))]

\* 269-278 on the decoded carryingCapacity
CarryingCapacities(d, carryingCapacity, garbage) ==
  GuildKLoop([guildCarryingCapacity |-> <<>>, systemCarryingCapacity |-> 0],
             0, 0, 0, d.NumGuilds, d.GuildSpecies,
             [k \in 0..(d.NumSpecies - 1) |-> At(carryingCapacity, k, garbage)])

\* 280-285: row 0 of the two trajectories
SeedSpecies(d) ==
  [ZeroMatrix(d.RunLength + 1, NumSpeciesOrGuilds(d)) EXCEPT
     ![1] = [i \in 1..NumSpeciesOrGuilds(d) |-> ObservedBiomassBySpecies(d)[1][i]]]
SeedGuilds(d) ==
  [ZeroMatrix(d.RunLength + 1, d.NumGuilds) EXCEPT
     ![1] = [i \in 1..d.NumGuilds |-> ObservedBiomassByGuilds(d)[1][i]]]

\* 247-285: everything before the nullptr test
Seeded(d, params, K) ==
  [NoEvaluation EXCEPT
     !.extracted = TRUE, !.params = params,
     !.guildCarryingCapacity = K.guildCarryingCapacity,
     !.systemCarryingCapacity = K.systemCarryingCapacity,
     !.EstBiomassSpecies = SeedSpecies(d), !.EstBiomassGuilds = SeedGuilds(d)]

Prepare(d, params, garbage) ==
  Seeded(d, params, CarryingCapacities(d, params.carryingCapacity, garbage))

\* (variant: the counter returned instead of the fitness whenever a
\* progress record is written)
Return_CounterWhenWritten(r, fitness, MSSPMName, d, NumObjFcnCalls) ==
  [r EXCEPT
     !.ret = IF (NumObjFcnCalls + 1) % ProgressPeriod = 0 THEN NumObjFcnCalls + 1
             ELSE fitness,
     !.NumObjFcnCalls =
        incrementObjectiveFunctionCounter(MSSPMName, fitness, d, NumObjFcnCalls).NumObjFcnCalls,
     !.written =
        incrementObjectiveFunctionCounter(MSSPMName, fitness, d, NumObjFcnCalls).written]

\* the counter incremented and the value returned (288-289, 324-325, 374-376)
Counted(r, fitness, c) ==
  [r EXCEPT !.ret = fitness, !.NumObjFcnCalls = c.NumObjFcnCalls, !.written = c.written]

Return(r, fitness, MSSPMName, d, NumObjFcnCalls) ==
  Counted(r, fitness,
          incrementObjectiveFunctionCounter(MSSPMName, fitness, d, NumObjFcnCalls))

\* 339-351: which rescaling is applied to both matrices
Rescaling(d) == IF d.Scaling = "Mean" THEN "Mean" ELSE "Min Max"

\* 353-372: the statistics function called and the fitness made of its value
Statistic(d) ==
  CASE d.ObjectiveCriterion = "Least Squares"      -> "calculateSumOfSquares"
    [] d.ObjectiveCriterion = "Model Efficiency"   -> "calculateModelEfficiency"
    [] d.ObjectiveCriterion = "Maximum Likelihood" -> "calculateMaximumLikelihoodNoRescale"
    [] OTHER -> "none"

\* (variant: every statistics function given the rescaled matrices)
Scored_AlwaysRescaled(d) ==
  IF d.ObjectiveCriterion \in {"Least Squares", "Model Efficiency", "Maximum Likelihood"}
  THEN "rescaled" ELSE "none"

\* 356-371: the matrices the statistics function is given
Scored(d) ==
  CASE d.ObjectiveCriterion = "Least Squares"      -> "rescaled"
    [] d.ObjectiveCriterion = "Model Efficiency"   -> "rescaled"
    [] d.ObjectiveCriterion = "Maximum Likelihood" -> "unscaled"
    [] OTHER -> "none"

\* (variant: an unrecognised criterion scored like Least Squares)
Fitness_UnknownScored(d, score) ==
  CASE d.ObjectiveCriterion = "Model Efficiency" -> Neg(score)
    [] OTHER -> score

Fitness(d, score) ==
  CASE d.ObjectiveCriterion = "Least Squares"      -> score
    [] d.ObjectiveCriterion = "Model Efficiency"   -> Neg(score)
    [] d.ObjectiveCriterion = "Maximum Likelihood" -> score
    [] OTHER -> 0

\* (variant: the abort of 323-326 returning without counting the call)
AfterSimulation_AbortUncounted(sim, d, ext, MSSPMName, NumObjFcnCalls) ==
  IF sim.aborted
  THEN [sim EXCEPT !.ret = DefaultFitness, !.NumObjFcnCalls = NumObjFcnCalls]
  ELSE Return([sim EXCEPT !.rescaled = Rescaling(d), !.statistic = Statistic(d),
                          !.scored = Scored(d)],
              Fitness(d, ext.score), MSSPMName, d, NumObjFcnCalls)

\* 323-326 and 339-376, after the year loop has stopped
AfterSimulation(sim, d, ext, MSSPMName, NumObjFcnCalls) ==
  IF sim.aborted
  THEN Return(sim, DefaultFitness, MSSPMName, d, NumObjFcnCalls)
  ELSE Return([sim EXCEPT !.rescaled = Rescaling(d), !.statistic = Statistic(d),
                          !.scored = Scored(d)],
              Fitness(d, ext.score), MSSPMName, d, NumObjFcnCalls)

\* (variant: the nullptr test of 287-290 left out)
AfterSeeding_NoNullTest(seeded, d, ext, GrowthForm, MSSPMName, NumObjFcnCalls) ==
  AfterSimulation(
    SimLoop(seeded, 1, 0, d.RunLength + 1, NumSpeciesOrGuilds(d), d.NumGuilds,
            d.GuildSpecies, ext),
    d, ext, MSSPMName, NumObjFcnCalls)

\* 287-377
AfterSeeding(seeded, d, ext, GrowthForm, MSSPMName, NumObjFcnCalls) ==
  IF ~GrowthForm
  THEN Return(seeded, -1, MSSPMName, d, NumObjFcnCalls)
  ELSE AfterSimulation(
         SimLoop(seeded, 1, 0, d.RunLength + 1, NumSpeciesOrGuilds(d), d.NumGuilds,
                 d.GuildSpecies, ext),
         d, ext, MSSPMName, NumObjFcnCalls)

\* (variant: the records named after the number of the run before)
objectiveFunction_PreviousRunName(NLoptDataStruct, EstParameters, ext, Quit, GrowthForm, NumObjFcnCalls, RunNum) ==
  IF Quit
  THEN [NoEvaluation EXCEPT !.thrown = "forced_stop", !.NumObjFcnCalls = NumObjFcnCalls]
  ELSE AfterSeeding(
         Prepare(NLoptDataStruct,
                 extractParameters(NLoptDataStruct, EstParameters,
                                   InitializedOutputs(NLoptDataStruct)),
                 ext.garbage),
         NLoptDataStruct, ext, GrowthForm, <<"Run", RunNum - 1, 1>>, NumObjFcnCalls)

\* (variant: the poll of m_Quit at 243-245 left out)
objectiveFunction_NoPoll(NLoptDataStruct, EstParameters, ext, Quit, GrowthForm, NumObjFcnCalls, RunNum) ==
  AfterSeeding(
    Prepare(NLoptDataStruct,
            extractParameters(NLoptDataStruct, EstParameters,
                              InitializedOutputs(NLoptDataStruct)),
            ext.garbage),
    NLoptDataStruct, ext, GrowthForm, <<"Run", RunNum, 1>>, NumObjFcnCalls)

\* The whole function.  Quit, GrowthForm, NumObjFcnCalls and RunNum are the
\* values of m_Quit, NLoptGrowthForm != nullptr, m_NumObjFcnCalls and
\* m_RunNum at the call; the result tells what the call did.
objectiveFunction(NLoptDataStruct, EstParameters, ext, Quit, GrowthForm, NumObjFcnCalls, RunNum) ==
  IF Quit
  THEN [NoEvaluation EXCEPT !.thrown = "forced_stop", !.NumObjFcnCalls = NumObjFcnCalls]
  ELSE AfterSeeding(
         Prepare(NLoptDataStruct,
                 extractParameters(NLoptDataStruct, EstParameters,
                                   InitializedOutputs(NLoptDataStruct)),
                 ext.garbage),
         NLoptDataStruct, ext, GrowthForm, <<"Run", RunNum, 1>>, NumObjFcnCalls)

(***************************************************************************)
(* createOutputStr (660-725) and its helpers.  The summary string is       *)
(* modelled by its parts: the counts, the fitness texts and the list of    *)
(* per-aspect listings in the order they are appended.                     *)
(***************************************************************************)
\* std::to_string(double): the sign and the magnitude, as "%f" prints them
to_string(v) ==
  IF v = NaN THEN <<"", "nan">>
  ELSE IF v < 0 THEN <<"-", 0 - v>> ELSE <<"", v>>

RECURSIVE SumSeq(_)
SumSeq(v) == IF v = <<>> THEN 0 ELSE Plus(v[1], SumSeq(Tail(v)))

convertValues1DToOutputStr(label, Values, includeTotal) ==
  [label |-> label, values |-> <<Values>>,
   total |-> IF includeTotal THEN <<SumSeq(Values)>> ELSE <<>>]

convertValues2DToOutputStr(label, matrix) ==
  [label |-> IF size1(matrix) > 0 /\ size2(matrix) > 0 THEN label ELSE "",
   values |-> matrix, total |-> <<>>]

createOutputStr(numTotalParameters, numEstParameters, numSubRuns, bestFitness, fitnessStdDev, NLoptStruct, est, InitialCarryingCapacities) ==
  LET growthForm      == NLoptStruct.GrowthForm
      harvestForm     == NLoptStruct.HarvestForm
      competitionForm == NLoptStruct.CompetitionForm
      predationForm   == NLoptStruct.PredationForm
  IN  [numEstParameters |-> numEstParameters,
       numTotalParameters |-> numTotalParameters,
       numSubRuns |-> numSubRuns,
       bestFitness |-> to_string(bestFitness),
       fitnessStdDev |-> to_string(fitnessStdDev),
       listings |->
         (IF growthForm = "Logistic"
          THEN <<convertValues1DToOutputStr("Carrying Capacity", InitialCarryingCapacities, TRUE)>>
          ELSE <<>>)
         \o <<convertValues1DToOutputStr("Growth Rate", est.growthRate, FALSE)>>
         \o (IF growthForm = "Logistic"
             THEN <<convertValues1DToOutputStr("Carrying Capacity", est.carryingCapacity, TRUE)>>
             ELSE <<>>)
         \o (IF harvestForm = "Effort (qE)"
             THEN <<convertValues1DToOutputStr("Catchability", est.catchabilityRate, FALSE)>>
             ELSE <<>>)
         \o (IF competitionForm = "NO_K"
             THEN <<convertValues2DToOutputStr("Competition (alpha)", est.competitionAlpha)>>
             ELSE IF competitionForm \in {"MS-PROD", "AGG-PROD"}
             THEN (IF competitionForm = "MS-PROD"
                   THEN <<convertValues2DToOutputStr("Competition (beta::species)",
                                                     est.competitionBetaSpecies)>>
                   ELSE <<>>)
                  \o <<convertValues2DToOutputStr("Competition (beta::guilds)",
                                                  est.competitionBetaSpecies)>>
             ELSE <<>>)
         \o (IF predationForm \in {"Type I", "Type II", "Type III"}
             THEN <<convertValues2DToOutputStr("Predation (rho)", est.predation)>>
             ELSE <<>>)
         \o (IF predationForm \in {"Type II", "Type III"}
             THEN <<convertValues2DToOutputStr("Handling", est.handling)>>
             ELSE <<>>)
         \o (IF predationForm = "Type III"
             THEN <<convertValues1DToOutputStr("Predation Exponent", est.exponent, FALSE)>>
             ELSE <<>>)]

\* stopRun (772-785): the four lines written to the stop file
stopRun(elapsedTimeStr, fitnessStr) ==
  [cmd |-> "Stop", name |-> "", elapsed |-> elapsedTimeStr, fitness |-> fitnessStr]

(***************************************************************************)
(* rescaleMinMax (887-919).  The entries of the result are quotients of    *)
(* two numbers, kept exact as fractions in lowest terms.                   *)
(***************************************************************************)
RECURSIVE GCD(_, _)
GCD(a, b) == IF b = 0 THEN a ELSE GCD(b, a % b)

Abs(a) == IF a < 0 THEN 0 - a ELSE a

\* a / b on doubles: <<n, d>> in lowest terms with d > 0; a division by
\* zero gives <<0, 0>> (NaN), <<1, 0>> (inf) or <<-1, 0>> (-inf)
Divide(a, b) ==
  IF b = 0 THEN <<IF a > 0 THEN 1 ELSE IF a < 0 THEN -1 ELSE 0, 0>>
  ELSE LET g == GCD(Abs(a), Abs(b))
           sign == IF b < 0 THEN -1 ELSE 1
       IN  <<sign * (a \div g), sign * (b \div g)>>

\* std::sort on a std::vector<double>
RECURSIVE Insert(_, _)
Insert(sorted, v) ==
  IF sorted = <<>> THEN <<v>>
  ELSE IF v <= Head(sorted) THEN <<v>> \o sorted
  ELSE <<Head(sorted)>> \o Insert(Tail(sorted), v)

RECURSIVE sort(_)
sort(tmp) == IF tmp = <<>> THEN <<>> ELSE Insert(sort(Tail(tmp)), Head(tmp))

\* 902-905: the column copied to tmp and sorted
SortedColumn(matrix, species) ==
  sort([time \in 1..size1(matrix) |-> matrix[time][species]])

\* (variant: the extremes taken over the whole matrix)
minValues_WholeMatrix(matrix) ==
  [species \in 1..size2(matrix) |->
     CHOOSE v \in {matrix[t][j] : t \in 1..size1(matrix), j \in 1..size2(matrix)} :
       \A t \in 1..size1(matrix), j \in 1..size2(matrix) : v <= matrix[t][j]]

\* 906-907: tmp.front() and tmp.back() of every column
minValues(matrix) ==
  [species \in 1..size2(matrix) |-> SortedColumn(matrix, species)[1]]
maxValues(matrix) ==
  [species \in 1..size2(matrix) |-> SortedColumn(matrix, species)[size1(matrix)]]

\* 911-918: every cell of the matrix written to rescaledMatrix
rescaleMinMax(matrix, rescaledMatrix) ==
  [time \in 1..size1(rescaledMatrix) |->
     [species \in 1..size2(rescaledMatrix) |->
        IF time <= size1(matrix) /\ species <= size2(matrix)
        THEN LET minVal == minValues(matrix)[species]
                 maxVal == maxValues(matrix)[species]
                 den    == maxVal - minVal
             IN  Divide(matrix[time][species] - minVal, den)
        ELSE rescaledMatrix[time][species]]]


(***************************************************************************)
(* State.                                                                  *)
(***************************************************************************)
VARIABLES
  m_Quit,            \* the file-scope cancellation flag
  m_NumObjFcnCalls,  \* static evaluation counter
  m_RunNum,          \* static run counter
  NLoptGrowthForm,   \* TRUE when the four form pointers are not nullptr
  m_Parameters,      \* member: the vector handed to optimize()
  m_Est,             \* members m_EstGrowthRates ... m_EstExponent
  pc,                \* "idle", or "optimize" while optimize() is running
  run,               \* locals of the estimateParameters call and the optimizer
  log,               \* what the current run has written and emitted, in order
  lastCall,          \* the latest objectiveFunction call since the run began
  codec,             \* harness applying extractParameters to one input
  scaler             \* harness applying rescaleMinMax to one matrix

vars == <<m_Quit, m_NumObjFcnCalls, m_RunNum, NLoptGrowthForm, m_Parameters,
          m_Est, pc, run, log, lastCall, codec, scaler>>

progVars == <<m_Quit, m_NumObjFcnCalls, m_RunNum, NLoptGrowthForm, m_Parameters,
              m_Est, pc, run, log, lastCall>>

DefaultStruct ==
  MakeStruct("Linear", "Catch", "Null", "Null",
             [NumSpecies |-> 1, NumGuilds |-> 1, GuildSpecies |-> GuildMembers(1, 1)],
             "Least Squares", "Min Max", 1)

NoRun ==
  [status |-> "none", NLoptStruct |-> DefaultStruct, NumEstParameters |-> 0,
   objective |-> "none", MaxOrMin |-> "",
   evals |-> 0, simulated |-> 0, extracted |-> 0, forced |-> FALSE,
   hasBest |-> FALSE, bestF |-> 0, bestX |-> <<>>,
   stopAtEntry |-> FALSE, stopBeforeEval |-> FALSE, stopDuringRun |-> FALSE,
   failure |-> "none", outcome |-> "none", minf |-> 0, bestFitnessStr |-> "TBD"]

NoCall == [by |-> "none", NLoptDataStruct |-> DefaultStruct, EstParameters |-> <<>>,
           ext |-> [default |-> Steady, special |-> Steady, at |-> NoCell,
                    score |-> 0, garbage |-> 0],
           Quit |-> FALSE, GrowthForm |-> FALSE, result |-> NoEvaluation]

NoScaler == [pc |-> "off", matrix |-> EmptyMatrix, rescaledMatrix |-> EmptyMatrix]

NoCodec == [pc |-> "off", NLoptDataStruct |-> DefaultStruct, EstParameters |-> <<>>,
            prev |-> NoParameters, out |-> NoParameters, ranges |-> <<>>]

\* The state after static initialisation and NLopt_Estimator() (9-46)
ProgInit ==
  /\ m_Quit = FALSE
  /\ m_NumObjFcnCalls = 0
  /\ m_RunNum = 0
  /\ NLoptGrowthForm = FALSE
  /\ m_Parameters = <<>>
  /\ m_Est = NoParameters
  /\ pc = "idle"
  /\ run = NoRun
  /\ log = <<>>
  /\ lastCall = NoCall

Init == ProgInit /\ codec = NoCodec /\ scaler = NoScaler


(***************************************************************************)
(* Inputs of the driver.                                                   *)
(***************************************************************************)
\* the cells (time, i) of the year loop
Cells(d) == (1..d.RunLength) \X (1..SpeciesOrGuilds(d))

ScoreVals == {1, 2}
GarbageVals == {0, 5}

Exts(d) ==
  {[default |-> df, special |-> sp, at |-> c, score |-> sc, garbage |-> gb] :
     df \in {Steady, Grow}, sp \in {Decline, Invalid},
     c \in Cells(d), sc \in ScoreVals, gb \in GarbageVals}
  \cup
  {[default |-> df, special |-> Decline, at |-> NoCell, score |-> sc, garbage |-> gb] :
     df \in {Steady, Grow}, sc \in ScoreVals, gb \in GarbageVals}

\* the evaluations the driver is explored with: every year steady, or a
\* decline in the first cell
DriverExts(d) ==
  {e \in Exts(d) : /\ e.default = Steady /\ e.special = Decline /\ e.garbage = 0
                   /\ e.at \in {NoCell, <<1, 1>>}}

\* the configurations the driver is explored with: every criterion, one
\* shape, two combinations of forms
DriverStructs ==
  {MakeStruct(f[1], f[2], f[3], f[4], shape, crit, "Min Max", 1) :
     f \in {<<"Logistic", "Effort (qE)", "MS-PROD", "Type III">>,
            <<"Linear", "Catch", "Null", "Null">>},
     shape \in {sh \in Shapes : sh.NumSpecies = MaxSpecies /\ sh.NumGuilds = 1},
     crit \in Criteria}

\* the configurations single evaluations are explored with
EvalStructs ==
  {MakeStruct(g, "Catch", c, p, shape, cs[1], cs[2], rl) :
     g \in GrowthForms, c \in CompetitionForms, p \in {"Null", "Type III"},
     shape \in Shapes,
     cs \in {<<"Least Squares", "Min Max">>, <<"Model Efficiency", "Mean">>,
             <<"Maximum Likelihood", "Unknown">>, <<"Unknown", "Min Max">>},
     rl \in {MaxRunLength}}

\* the points the optimizer tries: inside the bounds
TrialPoints(n) == {[k \in 1..n |-> v] : v \in {Range[1], Range[1] + (Range[2] - Range[1]) \div 2}}
\* a point whose neighbouring entries differ
RampPoint(n) == [k \in 1..n |-> Range[1] + (k % 2)]

\* where the set-up part of estimateParameters (533-599) can fail
SetupFailures == {"none", "forms", "ranges", "optimizer", "configure"}
\* where the part after optimize() (618-633) can fail with a std::exception
FinalizeFailures == {"none", "decode", "format"}
\* how optimize() ends
Outcomes == {"returned", "forced_stop", "invalid_argument", "failure"}

(***************************************************************************)
(* NLopt_Estimator::NLopt_Estimator (23-46): another estimator object is   *)
(* created; its members start empty, the file-scope flag is cleared.       *)
(***************************************************************************)
NLopt_Estimator ==
  /\ pc = "idle"
  /\ m_Quit' = FALSE
  /\ m_Parameters' = <<>>
  /\ m_Est' = NoParameters
  /\ UNCHANGED <<m_NumObjFcnCalls, m_RunNum, NLoptGrowthForm, pc, run, log, lastCall, codec, scaler>>

(***************************************************************************)
(* callback_StopTheOptimizer (653-657).                                    *)
(***************************************************************************)
callback_StopTheOptimizer ==
  /\ m_Quit' = TRUE
  /\ run' = IF pc = "optimize"
            THEN [run EXCEPT !.stopDuringRun = TRUE,
                             !.stopBeforeEval = @ \/ run.evals = 0]
            ELSE run
  /\ UNCHANGED <<m_NumObjFcnCalls, m_RunNum, NLoptGrowthForm, m_Parameters, m_Est,
                 pc, log, lastCall, codec, scaler>>

(***************************************************************************)
(* estimateParameters, first part (512-599): Init and Configure, up to     *)
(* the call of optimize().  An exception raised here is not caught.        *)
(***************************************************************************)
\* 565-572: the starting point
InitialGuess(ParameterRanges) ==
  [i \in 1..Len(ParameterRanges) |->
     LET lowerBound == ParameterRanges[i][1]
         upperBound == ParameterRanges[i][2]
     IN  IF lowerBound = upperBound THEN lowerBound
         ELSE lowerBound + (upperBound - lowerBound) \div 2]

\* 575-585: which objective the optimizer is given
SetObjective(criterion) ==
  CASE criterion = "Least Squares"      -> [MaxOrMin |-> "minimum", objective |-> "min"]
    [] criterion = "Maximum Likelihood" -> [MaxOrMin |-> "minimum", objective |-> "min"]
    [] criterion = "Model Efficiency"   -> [MaxOrMin |-> "maximum", objective |-> "max"]
    [] OTHER -> [MaxOrMin |-> "", objective |-> "none"]

\* (variant: line 530 left out)
estimateParameters_Begin_FlagKept(NLoptStruct, fail) ==
  /\ pc = "idle"
  /\ m_RunNum < MaxRuns
  /\ m_NumObjFcnCalls' = 0
  /\ m_Quit' = m_Quit
  /\ m_RunNum' = m_RunNum + 1
  /\ NLoptGrowthForm' = IF fail = "forms" THEN NLoptGrowthForm ELSE TRUE
  /\ LET ParameterRanges == LoadParameterRanges(NLoptStruct)
         obj == SetObjective(NLoptStruct.ObjectiveCriterion)
         pushed == fail \in {"none", "configure"}
     IN  /\ m_Parameters' = IF pushed THEN m_Parameters \o InitialGuess(ParameterRanges)
                            ELSE m_Parameters
         /\ run' = [NoRun EXCEPT
                      !.status = IF fail = "none" THEN "running" ELSE "escaped",
                      !.failure = fail,
                      !.NLoptStruct = NLoptStruct,
                      !.NumEstParameters = IF fail \in {"forms", "ranges"} THEN 0
                                           ELSE Len(ParameterRanges),
                      !.objective = IF fail = "none" THEN obj.objective ELSE "none",
                      !.MaxOrMin = IF fail = "none" THEN obj.MaxOrMin ELSE "",
                      !.stopAtEntry = m_Quit]
  /\ pc' = IF fail = "none" THEN "optimize" ELSE "idle"
  /\ log' = <<>>
  /\ lastCall' = NoCall
  /\ UNCHANGED <<m_Est, codec, scaler>>

estimateParameters_Begin(NLoptStruct, fail) ==
  /\ pc = "idle"
  /\ m_RunNum < MaxRuns
  /\ m_NumObjFcnCalls' = 0
  /\ m_Quit' = FALSE
  /\ m_RunNum' = m_RunNum + 1
  /\ NLoptGrowthForm' = IF fail = "forms" THEN NLoptGrowthForm ELSE TRUE
  /\ LET ParameterRanges == LoadParameterRanges(NLoptStruct)
         obj == SetObjective(NLoptStruct.ObjectiveCriterion)
         pushed == fail \in {"none", "configure"}
     IN  /\ m_Parameters' = IF pushed THEN m_Parameters \o InitialGuess(ParameterRanges)
                            ELSE m_Parameters
         /\ run' = [NoRun EXCEPT
                      !.status = IF fail = "none" THEN "running" ELSE "escaped",
                      !.failure = fail,
                      !.NLoptStruct = NLoptStruct,
                      !.NumEstParameters = IF fail \in {"forms", "ranges"} THEN 0
                                           ELSE Len(ParameterRanges),
                      !.objective = IF fail = "none" THEN obj.objective ELSE "none",
                      !.MaxOrMin = IF fail = "none" THEN obj.MaxOrMin ELSE "",
                      !.stopAtEntry = m_Quit]
  /\ pc' = IF fail = "none" THEN "optimize" ELSE "idle"
  /\ log' = <<>>
  /\ lastCall' = NoCall
  /\ UNCHANGED <<m_Est, codec, scaler>>

(***************************************************************************)
(* One objectiveFunction call: its effect on the statics and the record    *)
(* of the call.                                                            *)
(***************************************************************************)
Call(by, NLoptDataStruct, EstParameters, ext) ==
  [by |-> by, NLoptDataStruct |-> NLoptDataStruct, EstParameters |-> EstParameters,
   ext |-> ext, Quit |-> m_Quit, GrowthForm |-> NLoptGrowthForm,
   result |-> objectiveFunction(NLoptDataStruct, EstParameters, ext, m_Quit,
                                NLoptGrowthForm, m_NumObjFcnCalls, m_RunNum)]

ProgressEvents(written) == [k \in 1..Len(written) |-> <<"progress", written[k]>>]

(***************************************************************************)
(* The optimizer calls objectiveFunction on a trial point (inside 609).    *)
(* A forced_stop thrown by the objective is caught by the NLopt wrapper,   *)
(* which marks the optimizer as force-stopped.                             *)
(***************************************************************************)
Better(objective, f, g) ==
  IF objective = "max" THEN LessThan(g, f) ELSE LessThan(f, g)

\* whether the value of a trial replaces the optimizer's best value
Improves(r) ==
  r.thrown = "none" /\ (~run.hasBest \/ Better(run.objective, r.ret, run.bestF))

\* the optimizer's bookkeeping after the call c on the trial point x
AfterCall(x, c) ==
  /\ lastCall' = c
  /\ m_NumObjFcnCalls' = c.result.NumObjFcnCalls
  /\ log' = log \o ProgressEvents(c.result.written)
  /\ run' = [run EXCEPT
               !.evals = @ + 1,
               !.extracted = IF c.result.extracted THEN @ + 1 ELSE @,
               !.simulated = IF c.result.cells # <<>> THEN @ + 1 ELSE @,
               !.forced = @ \/ c.result.thrown # "none",
               !.hasBest = @ \/ c.result.thrown = "none",
               !.bestF = IF Improves(c.result) THEN c.result.ret ELSE @,
               !.bestX = IF Improves(c.result) THEN x ELSE @]

optimize_Evaluate(x, ext) ==
  /\ pc = "optimize"
  /\ run.objective # "none"
  /\ Len(m_Parameters) = run.NumEstParameters
  /\ run.evals < MaxEvals
  /\ AfterCall(x, Call("optimizer", run.NLoptStruct, x, ext))
  /\ UNCHANGED <<m_Quit, m_RunNum, NLoptGrowthForm, m_Parameters, m_Est, pc, codec, scaler>>

(***************************************************************************)
(* estimateParameters, second part (604-651): optimize() ends, by return   *)
(* or by exception (caught at 612-616); the final vector is decoded, the   *)
(* summary built and RunCompleted emitted (618-633), a std::exception      *)
(* raised there being caught at 636-641; then stopRun (646).               *)
(***************************************************************************)
OutcomePossible(outcome) ==
  IF run.objective = "none" \/ Len(m_Parameters) # run.NumEstParameters
  THEN outcome = "invalid_argument"
  ELSE IF run.forced THEN outcome = "forced_stop"
  ELSE \/ outcome = "returned" /\ run.hasBest
       \/ outcome = "failure" /\ run.evals > 0

\* 609: what optimize() leaves in minf and in m_Parameters
FoundFitness == IF run.hasBest THEN run.bestF ELSE 0
FoundParameters == IF run.hasBest THEN run.bestX ELSE m_Parameters

\* 623-627: the decode of the final vector into the members
FinalExtract(fail) ==
  IF fail = "decode" THEN ClearOutputs(m_Est)
  ELSE extractParameters(run.NLoptStruct, FoundParameters, m_Est)

\* 629-631: the summary, or what bestFitnessStr holds when 623-631 threw
Summary(fail, est) ==
  CASE fail = "none"   -> createOutputStr(run.NLoptStruct.TotalNumberParameters,
                                          Len(FoundParameters),
                                          run.NLoptStruct.BeesNumRepetitions,
                                          FoundFitness, 0, run.NLoptStruct, est, <<>>)
    [] fail = "decode" -> "TBD"
    [] fail = "format" -> "partial"

\* 633: emitted only when nothing threw before it
EmitRunCompleted(fail, bestFitnessStr) ==
  IF fail = "none"
  THEN <<<<"RunCompleted",
           [bestFitness |-> bestFitnessStr,
            showDiagnosticsChart |-> run.NLoptStruct.showDiagnosticChart]>>>>
  ELSE <<>>

\* 633-646 with the final bestFitnessStr
Finish(outcome, fail, bestFitnessStr) ==
  /\ log' = log \o EmitRunCompleted(fail, bestFitnessStr)
                \o <<<<"Stop", stopRun("Elapsed runtime", bestFitnessStr)>>>>
  /\ run' = [run EXCEPT !.status = "completed", !.outcome = outcome,
                        !.failure = fail, !.minf = FoundFitness,
                        !.bestFitnessStr = bestFitnessStr]

\* 623-646 with the decoded members
Finalize(outcome, fail, est) ==
  /\ m_Est' = est
  /\ Finish(outcome, fail, Summary(fail, est))

estimateParameters_End(outcome, fail) ==
  /\ pc = "optimize"
  /\ OutcomePossible(outcome)
  /\ m_Parameters' = FoundParameters
  /\ Finalize(outcome, fail, FinalExtract(fail))
  /\ pc' = "idle"
  /\ UNCHANGED <<m_Quit, m_NumObjFcnCalls, m_RunNum, NLoptGrowthForm, lastCall, codec, scaler>>

(***************************************************************************)
(* objectiveFunction called by another caller than the optimizer (it is a  *)
(* public static member): an exception it throws reaches that caller.      *)
(***************************************************************************)
AfterDirectCall(c) ==
  /\ lastCall' = c
  /\ m_NumObjFcnCalls' = c.result.NumObjFcnCalls
  /\ log' = log \o ProgressEvents(c.result.written)

objectiveFunction_Direct(NLoptDataStruct, x, ext) ==
  /\ pc = "idle"
  /\ m_NumObjFcnCalls < MaxEvals
  /\ AfterDirectCall(Call("direct", NLoptDataStruct, x, ext))
  /\ UNCHANGED <<m_Quit, m_RunNum, NLoptGrowthForm, m_Parameters, m_Est, pc, run, codec, scaler>>

Construct == NLopt_Estimator
StopRequest == callback_StopTheOptimizer
BeginRun == \E d \in DriverStructs, fail \in SetupFailures : estimateParameters_Begin(d, fail)
Evaluate ==
  \E x \in TrialPoints(run.NumEstParameters), ext \in DriverExts(run.NLoptStruct) :
    optimize_Evaluate(x, ext)
EndRun == \E outcome \in Outcomes, fail \in FinalizeFailures : estimateParameters_End(outcome, fail)

Next == Construct \/ StopRequest \/ BeginRun \/ Evaluate \/ EndRun

Spec == Init /\ [][Next]_vars

(***************************************************************************)
(* Single evaluations: objectiveFunction called directly, and called once  *)
(* by the optimizer of a first run, over every form, shape and outcome of  *)
(* the external evaluators.                                                *)
(***************************************************************************)
DirectCall ==
  /\ lastCall = NoCall
  /\ run.status = "none"
  /\ \E d \in EvalStructs :
       \E x \in TrialPoints(NumEstParameters(d)), ext \in Exts(d) :
         objectiveFunction_Direct(d, x, ext)
BeginFirstRun ==
  /\ m_RunNum = 0
  /\ lastCall = NoCall
  /\ \E d \in EvalStructs : estimateParameters_Begin(d, "none")
EvaluateOnce ==
  /\ run.evals = 0
  /\ \E x \in TrialPoints(run.NumEstParameters) \cup {RampPoint(run.NumEstParameters)},
        ext \in Exts(run.NLoptStruct) :
       optimize_Evaluate(x, ext)

NextEval == StopRequest \/ DirectCall \/ BeginFirstRun \/ EvaluateOnce

SpecEval == Init /\ [][NextEval]_vars

(***************************************************************************)
(* The codec harness: extractParameters applied to one configuration and   *)
(* one flat vector of the length the optimizer works with.                 *)
(***************************************************************************)
CodecStructs ==
  {MakeStruct(g, h, c, p, shape, "Least Squares", "Min Max", 1) :
     g \in GrowthForms, h \in HarvestForms, c \in CompetitionForms,
     p \in PredationForms, shape \in Shapes}

\* flat vectors: arithmetic progressions, constant ones included
Vectors(n) ==
  {[k \in 1..n |-> b + s * k] : b \in 0..MaxBase, s \in 0..MaxStride}

\* outputs left behind by an earlier decode under another configuration
StaleParameters ==
  [growthRate |-> <<9>>, carryingCapacity |-> <<9>>, catchabilityRate |-> <<9>>,
   competitionAlpha |-> <<<<9>>>>, competitionBetaSpecies |-> <<<<9>>>>,
   competitionBetaGuilds |-> <<<<9>>>>, predation |-> <<<<9>>>>,
   handling |-> <<<<9>>>>, exponent |-> <<9>>, offset |-> 0]

CodecInputs ==
  UNION {{[pc |-> "input", NLoptDataStruct |-> d, EstParameters |-> x,
           prev |-> pv, out |-> NoParameters, ranges |-> <<>>] :
            x \in Vectors(NumEstParameters(d)),
            pv \in {NoParameters, StaleParameters}} : d \in CodecStructs}

InitCodec == ProgInit /\ codec \in CodecInputs /\ scaler = NoScaler

CodecLoadRanges ==
  /\ codec.pc = "input"
  /\ codec' = [codec EXCEPT !.pc = "ranged",
                            !.ranges = LoadParameterRanges(codec.NLoptDataStruct)]
  /\ UNCHANGED <<progVars, scaler>>

CodecExtract ==
  /\ codec.pc = "ranged"
  /\ codec' = [codec EXCEPT !.pc = "decoded",
                 !.out = extractParameters(codec.NLoptDataStruct, codec.EstParameters,
                                           codec.prev)]
  /\ UNCHANGED <<progVars, scaler>>

NextCodec == CodecLoadRanges \/ CodecExtract

SpecCodec == InitCodec /\ [][NextCodec]_vars

(***************************************************************************)
(* The rescaling harness: rescaleMinMax applied to one matrix of           *)
(* MaxRunLength + 1 years, its output matrix initialised as at 256-257.    *)
(***************************************************************************)
CellValues == {0, 1, 3}
ColumnCounts == {1, 2}

Matrices ==
  UNION {[1..(MaxRunLength + 1) -> [1..cols -> CellValues]] : cols \in ColumnCounts}

InitScaler ==
  /\ ProgInit
  /\ codec = NoCodec
  /\ scaler \in {[pc |-> "input", matrix |-> m,
                   rescaledMatrix |-> ZeroMatrix(size1(m), size2(m))] : m \in Matrices}

ScalerRescale ==
  /\ scaler.pc = "input"
  /\ scaler' = [scaler EXCEPT !.pc = "rescaled",
                  !.rescaledMatrix = rescaleMinMax(scaler.matrix, scaler.rescaledMatrix)]
  /\ UNCHANGED <<progVars, codec>>

NextScaler == ScalerRescale

SpecScaler == InitScaler /\ [][NextScaler]_vars

(***************************************************************************)
(* An unrecognised objective criterion: a run is made with it, and once    *)
(* the run has installed the forms and ended, objectiveFunction is called  *)
(* with the same configuration.                                            *)
(***************************************************************************)
BeginUnknownRun ==
  /\ m_RunNum = 0
  /\ \E d \in {e \in EvalStructs : e.ObjectiveCriterion = "Unknown"} :
       estimateParameters_Begin(d, "none")
DirectCallAfterRun ==
  /\ run.status = "completed"
  /\ lastCall = NoCall
  /\ \E x \in TrialPoints(run.NumEstParameters), ext \in Exts(run.NLoptStruct) :
       objectiveFunction_Direct(run.NLoptStruct, x, ext)

NextUnknown == BeginUnknownRun \/ EndRun \/ DirectCallAfterRun

SpecUnknown == Init /\ [][NextUnknown]_vars

(***************************************************************************)
(* Long runs: the optimizer evaluates its point MaxCalls times, so that    *)
(* the periodic progress records of incrementObjectiveFunctionCounter are  *)
(* written; between runs another estimator object may be created.         *)
(***************************************************************************)
ProgressStructs ==
  {MakeStruct("Linear", "Catch", "Null", "Null", shape, crit, "Min Max", 1) :
     shape \in {sh \in Shapes : sh.NumSpecies = MaxSpecies /\ sh.NumGuilds = 1},
     crit \in {"Least Squares", "Model Efficiency"}}

\* the evaluations of a long run: every year steady, or a decline in the
\* first cell
ProgressExts(d) == {e \in DriverExts(d) : e.score = 1}

optimize_EvaluateMany(ext) ==
  /\ pc = "optimize"
  /\ run.objective # "none"
  /\ Len(m_Parameters) = run.NumEstParameters
  /\ run.evals < MaxCalls
  /\ AfterCall(m_Parameters, Call("optimizer", run.NLoptStruct, m_Parameters, ext))
  /\ UNCHANGED <<m_Quit, m_RunNum, NLoptGrowthForm, m_Parameters, m_Est, pc, codec, scaler>>

BeginLongRun ==
  \E d \in ProgressStructs, fail \in SetupFailures : estimateParameters_Begin(d, fail)
EvaluateMany == \E ext \in ProgressExts(run.NLoptStruct) : optimize_EvaluateMany(ext)
EndLongRun ==
  /\ run.evals \in {0, MaxCalls}
  /\ \E outcome \in Outcomes : estimateParameters_End(outcome, "none")

NextProgress == Construct \/ BeginLongRun \/ EvaluateMany \/ EndLongRun

SpecProgress == Init /\ [][NextProgress]_vars

(***************************************************************************)
(* The canonical layout of the flat vector: the active segments in order,  *)
(* each with its shape.                                                    *)
(***************************************************************************)
Layout(d) ==
  LET N == IF d.CompetitionForm = "AGG-PROD" THEN d.NumGuilds ELSE d.NumSpecies
      G == d.NumGuilds
      seg(name, isVector, rows, cols) ==
        <<[name |-> name, isVector |-> isVector, rows |-> rows, cols |-> cols]>>
      when(b, sq) == IF b THEN sq ELSE <<>>
  IN  seg("growthRate", TRUE, 1, N)
      \o when(d.GrowthForm = "Logistic", seg("carryingCapacity", TRUE, 1, N))
      \o when(d.HarvestForm = "Effort (qE)", seg("catchabilityRate", TRUE, 1, N))
      \o when(d.CompetitionForm = "NO_K", seg("competitionAlpha", FALSE, N, N))
      \o when(d.CompetitionForm = "MS-PROD", seg("competitionBetaSpecies", FALSE, N, N))
      \o when(d.CompetitionForm = "MS-PROD", seg("competitionBetaGuilds", FALSE, N, G))
      \o when(d.CompetitionForm = "AGG-PROD", seg("competitionBetaGuilds", FALSE, N, G))
      \o when(d.PredationForm \in {"Type I", "Type II", "Type III"}, seg("predation", FALSE, N, N))
      \o when(d.PredationForm \in {"Type II", "Type III"}, seg("handling", FALSE, N, N))
      \o when(d.PredationForm = "Type III", seg("exponent", TRUE, 1, N))

RECURSIVE SegStart(_, _)
SegStart(L, k) == IF k <= 1 THEN 0 ELSE SegStart(L, k - 1) + L[k - 1].rows * L[k - 1].cols

SegmentNames ==
  {"growthRate", "carryingCapacity", "catchabilityRate", "competitionAlpha",
   "competitionBetaSpecies", "competitionBetaGuilds", "predation", "handling", "exponent"}
VectorNames == {"growthRate", "carryingCapacity", "catchabilityRate", "exponent"}

\* C1: extractParameters reads the flat vector as contiguous segments in the
\* canonical order: segment k holds exactly the elements that follow the
\* earlier active segments, a matrix row by row; a segment whose form is
\* not active receives nothing (empty vector, all-zero matrix).
C1_SegmentLayout ==
  codec.pc = "decoded" =>
    LET d == codec.NLoptDataStruct
        x == codec.EstParameters
        o == codec.out
        L == Layout(d)
    IN  /\ \A k \in 1..Len(L) :
             LET s == SegStart(L, k)
             IN  IF L[k].isVector
                 THEN o[L[k].name] = [i \in 1..L[k].cols |-> x[s + i]]
                 ELSE o[L[k].name] =
                        [i \in 1..L[k].rows |->
                           [j \in 1..L[k].cols |-> x[s + (i - 1) * L[k].cols + j]]]
        /\ \A n \in SegmentNames \ {L[k].name : k \in 1..Len(L)} :
             IF n \in VectorNames THEN o[n] = <<>>
             ELSE o[n] = ClearMatrix(codec.prev[n])

C1_Witness ==
  /\ codec.pc = "decoded"
  /\ codec.NLoptDataStruct.GrowthForm = "Logistic"
  /\ codec.NLoptDataStruct.HarvestForm = "Effort (qE)"
  /\ codec.NLoptDataStruct.CompetitionForm = "MS-PROD"
  /\ codec.NLoptDataStruct.PredationForm = "Type III"
  /\ codec.NLoptDataStruct.NumSpecies = 2
  /\ codec.NLoptDataStruct.NumGuilds = 1
  /\ codec.EstParameters[1] # codec.EstParameters[2]
  /\ codec.out.competitionBetaGuilds = <<<<codec.EstParameters[11]>>, <<codec.EstParameters[12]>>>>
  /\ codec.out.exponent = <<codec.EstParameters[21], codec.EstParameters[22]>>

RECURSIVE FlattenRows(_)
FlattenRows(M) == IF M = <<>> THEN <<>> ELSE M[1] \o FlattenRows(Tail(M))

RECURSIVE Reencode(_, _, _)
Reencode(L, o, k) ==
  IF k > Len(L) THEN <<>>
  ELSE (IF L[k].isVector THEN o[L[k].name] ELSE FlattenRows(o[L[k].name]))
       \o Reencode(L, o, k + 1)

\* C2: decoding a vector of the required length and concatenating the
\* decoded segments back in canonical order gives the original vector.
C2_RoundTrip ==
  codec.pc = "decoded" =>
    Reencode(Layout(codec.NLoptDataStruct), codec.out, 1) = codec.EstParameters

C2_Witness ==
  /\ codec.pc = "decoded"
  /\ codec.NLoptDataStruct.CompetitionForm = "AGG-PROD"
  /\ codec.NLoptDataStruct.PredationForm = "Type II"
  /\ codec.NLoptDataStruct.NumSpecies = 2
  /\ codec.NLoptDataStruct.NumGuilds = 1
  /\ Len(codec.EstParameters) = 4
  /\ codec.EstParameters[1] # codec.EstParameters[2]
  /\ codec.prev = StaleParameters
  /\ Reencode(Layout(codec.NLoptDataStruct), codec.out, 1) = codec.EstParameters

\* C3: the number of elements extractParameters consumes (its final
\* offset) equals the number of bound pairs collected from the four
\* loadParameterRanges calls.
C3_ConsumedEqualsBounds ==
  codec.pc = "decoded" => codec.out.offset = Len(codec.ranges)

C3_Witness ==
  /\ codec.pc = "decoded"
  /\ codec.NLoptDataStruct.CompetitionForm = "MS-PROD"
  /\ codec.NLoptDataStruct.PredationForm = "Type I"
  /\ codec.NLoptDataStruct.NumSpecies = 2
  /\ codec.NLoptDataStruct.NumGuilds = 2
  /\ codec.out.offset = 14
  /\ Len(codec.ranges) = 14

(***************************************************************************)
(* The driver: cancellation, termination, error handling, the sign of the  *)
(* model-efficiency fitness.                                               *)
(***************************************************************************)
Emitted(kind) == \E k \in 1..Len(log) : log[k][1] = kind

ThreeCriteria == {"Least Squares", "Model Efficiency", "Maximum Likelihood"}

\* C4: when callback_StopTheOptimizer sets the cancellation flag before any
\* objective evaluation of a run whose criterion is one of the three, the
\* run terminates cancelled (optimize() ends by forced stop) and no
\* evaluation of the run has decoded the vector or simulated a year.
C4_CancelBeforeAnyEvaluation ==
  (run.status = "completed" /\ run.stopBeforeEval
     /\ run.NLoptStruct.ObjectiveCriterion \in ThreeCriteria)
  => (run.outcome = "forced_stop" /\ run.simulated = 0 /\ run.extracted = 0)

\* C5: a run that has terminated has emitted RunCompleted and has written
\* the "Stop" record, whatever ended it.
C5_RunCompletedAndStop ==
  run.status = "completed" => (Emitted("RunCompleted") /\ Emitted("Stop"))

\* C6: no estimateParameters call ends by an exception reaching its caller,
\* whichever step failed.
C6_NoExceptionEscapes == run.status # "escaped"

\* C7: when a (year, species) cell of the simulation gets a negative or NaN
\* biomass value, objectiveFunction returns 99999 and that cell is the last
\* thing computed: no later cell, no rescaling, no scoring.
C7_AbortSentinel ==
  \A k \in 1..Len(lastCall.result.vals) :
    (lastCall.result.vals[k] < 0 \/ lastCall.result.vals[k] = NaN)
    => /\ lastCall.result.thrown = "none"
       /\ lastCall.result.ret = 99999
       /\ k = Len(lastCall.result.vals)
       /\ Len(lastCall.result.cells) = k
       /\ lastCall.result.rescaled = "none"
       /\ lastCall.result.statistic = "none"

C7_Witness ==
  /\ lastCall.by = "optimizer"
  /\ Len(lastCall.result.vals) = 2
  /\ lastCall.result.vals[1] >= 0
  /\ lastCall.result.vals[2] = NaN
  /\ lastCall.result.ret = 99999

\* C8 as stated: an objectiveFunction call made while the evaluators are
\* not installed returns -1 without simulating and without an exception.
C8_NotInstalledReturnsMinusOne ==
  (lastCall.by # "none" /\ ~lastCall.GrowthForm)
  => /\ lastCall.result.thrown = "none"
     /\ lastCall.result.ret = -1
     /\ lastCall.result.cells = <<>>

\* C8 amended: an objectiveFunction call made while the evaluators are not
\* installed and the cancellation flag is not set returns -1 without
\* simulating any year and without an exception, after decoding the vector
\* and counting the call; with the flag set it raises forced-stop instead.
C8_NotInstalledNotCancelled ==
  (lastCall.by # "none" /\ ~lastCall.GrowthForm)
  => IF lastCall.Quit
     THEN lastCall.result.thrown = "forced_stop" /\ lastCall.result.cells = <<>>
     ELSE /\ lastCall.result.thrown = "none"
          /\ lastCall.result.ret = -1
          /\ lastCall.result.cells = <<>>
          /\ lastCall.result.extracted
          /\ lastCall.result.NumObjFcnCalls > 0

C8_Witness ==
  /\ lastCall.by = "direct"
  /\ ~lastCall.GrowthForm
  /\ ~lastCall.Quit
  /\ lastCall.NLoptDataStruct.GrowthForm = "Logistic"
  /\ lastCall.result.ret = -1
  /\ lastCall.result.thrown = "none"

\* C9: under "Model Efficiency" the best-fitness text of the RunCompleted
\* summary is minus the optimizer's internal best value.
C9_SummaryReNegated ==
  (run.status = "completed" /\ run.failure = "none" /\ run.hasBest
     /\ run.NLoptStruct.ObjectiveCriterion = "Model Efficiency")
  => run.bestFitnessStr.bestFitness = to_string(Neg(run.minf))

\* C10: for each of the three criteria the optimizer is configured to
\* minimize the value objectiveFunction returns.
C10_AlwaysMinimizes ==
  (run.status \in {"running", "completed"}
     /\ run.NLoptStruct.ObjectiveCriterion \in ThreeCriteria)
  => run.objective = "min"

(***************************************************************************)
(* Repeated runs on one estimator object.                                  *)
(***************************************************************************)
\* the starting value the claim gives for one (lower, upper) pair
ExpectedGuess(pair) ==
  IF pair[1] = pair[2] THEN pair[1] ELSE pair[1] + (pair[2] - pair[1]) \div 2

\* C11: while optimize() of any estimateParameters invocation runs, the
\* vector it was handed has exactly one entry per collected bound pair, and
\* entry i is lower[i] when lower[i] = upper[i] and the midpoint otherwise.
C11_InitialGuessPerBoundPair ==
  pc = "optimize"
  => /\ Len(m_Parameters) = Len(LoadParameterRanges(run.NLoptStruct))
     /\ \A i \in 1..Len(m_Parameters) :
          m_Parameters[i] = ExpectedGuess(LoadParameterRanges(run.NLoptStruct)[i])

\* the vector optimize() returns for the invocation r: its best point, or
\* the invocation's own starting point when it found none
ReturnedVector(r) ==
  IF r.hasBest THEN r.bestX
  ELSE [i \in 1..Len(LoadParameterRanges(r.NLoptStruct)) |->
          ExpectedGuess(LoadParameterRanges(r.NLoptStruct)[i])]

\* C12: when an estimateParameters invocation completes (its final decode
\* not having thrown), the members read by the getEst* accessors equal
\* extractParameters applied to the vector the optimizer returned for that
\* invocation, not to values an earlier run left behind.
C12_ResultOfThisInvocation ==
  [][(pc = "optimize" /\ pc' = "idle" /\ run'.failure = "none")
     => m_Est' = extractParameters(run'.NLoptStruct, ReturnedVector(run'), NoParameters)]_vars

(***************************************************************************)
(* The two static counters.                                                *)
(***************************************************************************)
\* C13: in every run m_NumObjFcnCalls equals the number of objective
\* evaluations made since the run began that ended with a value (a score
\* or a sentinel): it is zero when the run starts and grows by one with
\* each of them.
C13_CounterCountsEvaluations ==
  run.status # "none" => m_NumObjFcnCalls = run.extracted

\* two evaluations of one run, the first with a score, the second aborted
C13_Witness ==
  /\ pc = "optimize"
  /\ m_RunNum = 2
  /\ run.extracted = 2
  /\ m_NumObjFcnCalls = 2
  /\ lastCall.result.ret = DefaultFitness
  /\ run.bestF # DefaultFitness

\* the progress records the current run has written, in order
ProgressRecords == SelectSeq(log, LAMBDA e : e[1] = "progress")

\* C14: m_RunNum is 0 until the first estimateParameters call, every
\* estimateParameters call adds exactly one to it (whether optimize() is
\* reached or the set-up throws), no other step changes it, and every
\* progress record of the run in which m_RunNum is n is named "Run n-1".
C14_RunNumMonotonic ==
  /\ [](run.status = "none" => m_RunNum = 0)
  /\ [](\A k \in 1..Len(ProgressRecords) :
          ProgressRecords[k][2].name = <<"Run", m_RunNum, 1>>)
  /\ [][/\ \/ m_RunNum' = m_RunNum
            \/ /\ m_RunNum' = m_RunNum + 1
               /\ pc = "idle"
               /\ run'.status \in {"running", "escaped"}
         /\ (pc = "idle" /\ (pc' = "optimize"
                               \/ (run.status # "escaped" /\ run'.status = "escaped")))
            => m_RunNum' = m_RunNum + 1]_vars

\* the second run has written its second progress record
C14_Witness ==
  /\ m_RunNum = 2
  /\ pc = "optimize"
  /\ Len(ProgressRecords) = 2
  /\ ProgressRecords[2][2].name = <<"Run", 2, 1>>

\* C15: after k evaluations of a run the run has written exactly
\* floor(k/1000) periodic progress records, the j-th of them carrying the
\* counter value 1000*j: a record is appended during an evaluation exactly
\* when the incremented counter is a multiple of 1000.
C15_PeriodicRecords ==
  run.status # "none"
  => /\ Len(ProgressRecords) = m_NumObjFcnCalls \div ProgressPeriod
     /\ \A j \in 1..Len(ProgressRecords) :
          ProgressRecords[j][2].NumGens = j * ProgressPeriod

\* the 2000th evaluation of a run was aborted and wrote the second record
C15_Witness ==
  /\ pc = "optimize"
  /\ m_NumObjFcnCalls = 2 * ProgressPeriod
  /\ lastCall.result.ret = DefaultFitness
  /\ Len(lastCall.result.written) = 1
  /\ Len(ProgressRecords) = 2

(***************************************************************************)
(* Cancellation during a run.                                              *)
(***************************************************************************)
\* C16: once m_Quit is set while optimize() runs it stays set until the run
\* has ended, every objectiveFunction call made from then on throws
\* forced_stop without decoding or simulating, and a run in which a call
\* threw forced_stop terminates with optimize() ended by that forced stop,
\* the exception being caught inside estimateParameters (the Stop record is
\* written).
C16_CancellationNotRetryable ==
  /\ [][(pc = "optimize" /\ m_Quit)
         => /\ m_Quit'
            /\ run'.simulated = run.simulated
            /\ run'.extracted = run.extracted
            /\ m_NumObjFcnCalls' = m_NumObjFcnCalls
            /\ run'.evals # run.evals
                 => (lastCall'.result.thrown = "forced_stop" /\ run'.forced)]_vars
  /\ []((run.status = "completed" /\ run.forced)
          => (run.outcome = "forced_stop" /\ Emitted("Stop")))

\* a run whose first evaluation simulated, cancelled before its second
C16_Witness ==
  /\ run.status = "completed"
  /\ run.stopDuringRun
  /\ ~run.stopBeforeEval
  /\ run.evals = 2
  /\ run.simulated = 1
  /\ lastCall.result.thrown = "forced_stop"
  /\ run.outcome = "forced_stop"

(***************************************************************************)
(* Min-max rescaling.                                                      *)
(***************************************************************************)
\* the values of one column of a matrix, and its extremes
ColumnValues(M, j) == {M[t][j] : t \in 1..size1(M)}
ColumnMin(M, j) == CHOOSE v \in ColumnValues(M, j) : \A w \in ColumnValues(M, j) : v <= w
ColumnMax(M, j) == CHOOSE v \in ColumnValues(M, j) : \A w \in ColumnValues(M, j) : w <= v

\* C17: in every column whose maximum exceeds its minimum, rescaleMinMax
\* writes exactly 0 where the column has its minimum, exactly 1 where it
\* has its maximum, and elsewhere the fraction (x - min)/(max - min), which
\* lies in [0,1]; min and max are those of that column alone.
C17_MinMaxRescaling ==
  scaler.pc = "rescaled"
  => \A j \in 1..size2(scaler.matrix) :
       LET min == ColumnMin(scaler.matrix, j)
           max == ColumnMax(scaler.matrix, j)
       IN  max > min
           => \A t \in 1..size1(scaler.matrix) :
                LET x == scaler.matrix[t][j]
                    r == scaler.rescaledMatrix[t][j]
                IN  /\ r[2] > 0
                    /\ r[1] * (max - min) = (x - min) * r[2]
                    /\ 0 <= r[1] /\ r[1] <= r[2]
                    /\ x = min => r = <<0, 1>>
                    /\ x = max => r = <<1, 1>>

\* a rescaled matrix of two columns with different minima, one with an
\* inner value, the other with its maximum twice
C17_Witness ==
  /\ scaler.pc = "rescaled"
  /\ scaler.matrix = <<<<0, 3>>, <<1, 1>>, <<3, 3>>>>
  /\ scaler.rescaledMatrix = <<<<<<0, 1>>, <<1, 1>>>>,
                               <<<<1, 3>>, <<0, 1>>>>,
                               <<<<1, 1>>, <<1, 1>>>>>>

ObsBiomassBySpeciesOrGuilds(d) ==
  IF isAGGPROD(d) THEN ObservedBiomassByGuilds(d) ELSE ObservedBiomassBySpecies(d)

\* a call that went past the nullptr test of 287
Simulated(c) ==
  c.by # "none" /\ c.result.thrown = "none" /\ c.result.extracted /\ c.GrowthForm

\* row 0 of the trajectory is row 0 of the observed biomass of its columns
C19_RowZeroObserved ==
  Simulated(lastCall)
  => \A i \in 1..NumSpeciesOrGuilds(lastCall.NLoptDataStruct) :
       lastCall.result.EstBiomassSpecies[1][i]
         = ObsBiomassBySpeciesOrGuilds(lastCall.NLoptDataStruct)[1][i]

\* the evaluators of cell (t, i) are given year t-1 and the cell (t-1, i),
\* and the value computed is that cell + growth - harvest - competition -
\* predation, stored in cell (t, i) unless the simulation aborts there
C19_Recurrence ==
  Simulated(lastCall)
  => \A k \in 1..Len(lastCall.result.cells) :
       LET r == lastCall.result
           t == r.cells[k][1]
           i == r.cells[k][2]
           T == Terms(lastCall.ext, t, i)
       IN  /\ t >= 1
           /\ r.args[k].time = t - 1
           /\ r.args[k].EstBiomassVal = r.EstBiomassSpecies[t][i]
           /\ r.vals[k] = Plus(r.EstBiomassSpecies[t][i],
                               Minus(Minus(Minus(T.growth, T.harvest), T.competition),
                                     T.predation))
           /\ (k < Len(r.cells) \/ ~r.aborted) => r.EstBiomassSpecies[t + 1][i] = r.vals[k]

\* C19: row 0 of the simulated trajectory is the observed initial biomass,
\* every later cell (t, i) is cell (t-1, i) + growth - harvest - competition
\* - predation, and the evaluators of year t are given year t-1 only.
C19_TrajectoryRecurrence == C19_RowZeroObserved /\ C19_Recurrence

\* C20: when a simulation has computed every year (competition form other
\* than AGG-PROD, so that the trajectory has one column per species), the
\* guild biomass of every year t >= 1 is, for every guild, the sum of the
\* year-t biomasses of its member species, each counted once.
C20_GuildBiomassIsMemberSum ==
  (Simulated(lastCall) /\ ~lastCall.result.aborted /\ ~isAGGPROD(lastCall.NLoptDataStruct))
  => LET r == lastCall.result
         d == lastCall.NLoptDataStruct
     IN  \A t \in 2..(d.RunLength + 1), g \in 1..d.NumGuilds :
           r.EstBiomassGuilds[t][g]
             = SumOver([k \in DOMAIN d.GuildSpecies[g] |->
                          r.EstBiomassSpecies[t][d.GuildSpecies[g][k]]],
                       DOMAIN d.GuildSpecies[g])

(***************************************************************************)
(* The carrying capacities of the guilds and of the system.                *)
(***************************************************************************)
\* a call that went past the poll of m_Quit
Decoded(c) == c.by # "none" /\ c.result.thrown = "none" /\ c.result.extracted

\* every member species of every guild has an entry in the decoded vector
MembersDecoded(c) ==
  \A g \in 1..c.NLoptDataStruct.NumGuilds :
    \A k \in DOMAIN c.NLoptDataStruct.GuildSpecies[g] :
      c.NLoptDataStruct.GuildSpecies[g][k] <= Len(c.result.params.carryingCapacity)

\* the sum of the decoded carrying capacities of the first j members of g
PartialK(c, g, j) ==
  SumOver([k \in 1..j |->
             c.result.params.carryingCapacity[c.NLoptDataStruct.GuildSpecies[g][k]]],
          1..j)

\* the claimed values: the member sum per guild, and for the system the sum
\* of the running partial totals over every guild and member position
ClaimedCapacities(c) ==
  /\ Len(c.result.guildCarryingCapacity) = c.NLoptDataStruct.NumGuilds
  /\ \A g \in 1..c.NLoptDataStruct.NumGuilds :
       c.result.guildCarryingCapacity[g]
         = PartialK(c, g, Len(c.NLoptDataStruct.GuildSpecies[g]))
  /\ c.result.systemCarryingCapacity
       = SumOver([g \in 1..c.NLoptDataStruct.NumGuilds |->
                    SumOver([j \in DOMAIN c.NLoptDataStruct.GuildSpecies[g] |->
                               PartialK(c, g, j)],
                            DOMAIN c.NLoptDataStruct.GuildSpecies[g])],
                 1..c.NLoptDataStruct.NumGuilds)

\* the claimed values are computed wherever every member has a decoded entry
C21_WhereDecoded ==
  (Decoded(lastCall) /\ MembersDecoded(lastCall)) => ClaimedCapacities(lastCall)

\* C21: in every evaluation each guild carrying capacity is the sum of the
\* decoded carrying capacities of its member species, and the system
\* carrying capacity is the sum, over every guild and member position, of
\* the guild running partial total at that position.
C21_CarryingCapacities ==
  Decoded(lastCall) => (MembersDecoded(lastCall) /\ ClaimedCapacities(lastCall))

(***************************************************************************)
(* Criteria and scaling.                                                   *)
(***************************************************************************)
\* C22: with a criterion other than the three, a run ends with its Stop
\* record written, and an evaluation that simulates every year returns 0
\* without an exception and adds one to the counter.
C22_UnknownCriterion ==
  /\ []((run.status = "completed" /\ run.NLoptStruct.ObjectiveCriterion \notin ThreeCriteria)
          => Emitted("Stop"))
  /\ []((Simulated(lastCall) /\ ~lastCall.result.aborted
           /\ lastCall.NLoptDataStruct.ObjectiveCriterion \notin ThreeCriteria)
          => lastCall.result.ret = 0)
  /\ [][(lastCall' # lastCall /\ Simulated(lastCall')
           /\ lastCall'.NLoptDataStruct.ObjectiveCriterion \notin ThreeCriteria)
          => m_NumObjFcnCalls' = m_NumObjFcnCalls + 1]_vars

\* a full simulation scored under the criterion "Unknown" after its run
C22_Witness ==
  /\ run.status = "completed"
  /\ Emitted("Stop")
  /\ Simulated(lastCall)
  /\ lastCall.NLoptDataStruct.ObjectiveCriterion = "Unknown"
  /\ Len(lastCall.result.cells) = 4
  /\ ~lastCall.result.aborted
  /\ lastCall.result.ret = 0
  /\ m_NumObjFcnCalls = 1

\* C23: under "Maximum Likelihood" the statistics function is given the
\* unscaled simulated and observed matrices, and the same vector and
\* evaluator results give the same fitness under every Scaling name.
C23_LikelihoodIgnoresScaling ==
  (Simulated(lastCall) /\ ~lastCall.result.aborted
     /\ lastCall.NLoptDataStruct.ObjectiveCriterion = "Maximum Likelihood")
  => /\ lastCall.result.scored = "unscaled"
     /\ \A sc \in Scalings :
          LET other == objectiveFunction([lastCall.NLoptDataStruct EXCEPT !.Scaling = sc],
                                         lastCall.EstParameters, lastCall.ext,
                                         FALSE, TRUE, 0, 0)
          IN  /\ other.scored = "unscaled"
              /\ other.rescaled = Rescaling([lastCall.NLoptDataStruct EXCEPT !.Scaling = sc])
              /\ other.ret = lastCall.result.ret

\* a full simulation scored by maximum likelihood
C23_Witness ==
  /\ Simulated(lastCall)
  /\ lastCall.NLoptDataStruct.ObjectiveCriterion = "Maximum Likelihood"
  /\ lastCall.result.statistic = "calculateMaximumLikelihoodNoRescale"
  /\ lastCall.result.scored = "unscaled"
  /\ lastCall.result.ret = 2

(***************************************************************************)
(* The reads of the guild carrying-capacity loop (269-278).                *)
(***************************************************************************)
\* the indexes carryingCapacity is read at: GuildSpecies[i][j], from 0
ReadIndexes(c) ==
  UNION {{c.NLoptDataStruct.GuildSpecies[g][k] - 1 :
            k \in DOMAIN c.NLoptDataStruct.GuildSpecies[g]} :
         g \in 1..c.NLoptDataStruct.NumGuilds}

\* with Logistic growth and a vector of one entry per species every read
\* is inside the vector
C24_InsideWhenLogisticBySpecies ==
  (Decoded(lastCall) /\ lastCall.NLoptDataStruct.GrowthForm = "Logistic"
     /\ ~isAGGPROD(lastCall.NLoptDataStruct))
  => \A k \in ReadIndexes(lastCall) : k < Len(lastCall.result.params.carryingCapacity)

\* C24: in the guild carrying-capacity loop every index the decoded
\* carryingCapacity vector is read at is smaller than its length, whatever
\* the growth form and the competition form.
C24_ReadsInsideVector ==
  Decoded(lastCall)
  => \A k \in ReadIndexes(lastCall) : k < Len(lastCall.result.params.carryingCapacity)

(***************************************************************************)
(* The guild carrying capacity given to the competition evaluator.         *)
(***************************************************************************)
\* the guild (from 0) of column i (from 0) of the trajectory: the guild
\* itself under AGG-PROD, otherwise the guild whose member list holds i
GuildOf(d, i) ==
  IF isAGGPROD(d) THEN i
  ELSE (CHOOSE g \in 1..d.NumGuilds :
          \E k \in DOMAIN d.GuildSpecies[g] : d.GuildSpecies[g][k] = i + 1) - 1

\* the evaluator is always given the capacity of the first guild
C25_FirstGuildCapacity ==
  Simulated(lastCall)
  => \A k \in 1..Len(lastCall.result.cells) :
       lastCall.result.args[k].guildK = lastCall.result.guildCarryingCapacity[1]

\* C25: for every species and year the guild carrying capacity given to
\* the competition evaluator is that of the guild containing the species.
C25_CapacityOfOwnGuild ==
  Simulated(lastCall)
  => \A k \in 1..Len(lastCall.result.cells) :
       lastCall.result.args[k].guildK
         = lastCall.result.guildCarryingCapacity[
             GuildOf(lastCall.NLoptDataStruct, lastCall.result.cells[k][2] - 1) + 1]

(***************************************************************************)
(* Row 0 of the trajectory and the matrix it is scored against.            *)
(***************************************************************************)
\* row 0 is copied from the observed biomass by species, whatever the form
C26_RowZeroFromSpecies ==
  Decoded(lastCall)
  => \A i \in 1..NumSpeciesOrGuilds(lastCall.NLoptDataStruct) :
       lastCall.result.EstBiomassSpecies[1][i]
         = ObservedBiomassBySpecies(lastCall.NLoptDataStruct)[1][i]

\* C26: for every competition form, AGG-PROD included, row 0 of the
\* trajectory is row 0 of the observed matrix it is scored against: by
\* guilds under AGG-PROD, by species otherwise.
C26_RowZeroOfScoredMatrix ==
  Decoded(lastCall)
  => LET d == lastCall.NLoptDataStruct
         scoredAgainst == IF isAGGPROD(d) THEN ObservedBiomassByGuilds(d)
                                          ELSE ObservedBiomassBySpecies(d)
     IN  lastCall.result.EstBiomassSpecies[1] = scoredAgainst[1]

(***************************************************************************)
(* The cancellation flag across runs.                                      *)
(***************************************************************************)
\* a step that begins an estimateParameters call
BeginsRun == m_RunNum' = m_RunNum + 1

\* C27: the Init step of every estimateParameters call clears the flag, so
\* a run entered with the flag set is not cancelled by it; an evaluation
\* of a run raises forced-stop only after a stop request delivered during
\* that run; and a set flag stays set until the next Init or the
\* construction of another estimator.
C27_FlagClearedAtInit ==
  /\ [][BeginsRun => ~m_Quit']_vars
  /\ []((run.status # "none" /\ ~run.stopDuringRun)
          => (~run.forced /\ run.outcome # "forced_stop"
              /\ (lastCall.by = "optimizer" => ~lastCall.Quit)))
  /\ [](lastCall.by = "optimizer"
          => (lastCall.result.thrown = "forced_stop" <=> lastCall.Quit))
  /\ []((lastCall.by = "optimizer" /\ lastCall.Quit) => run.stopDuringRun)
  /\ [][(m_Quit /\ ~m_Quit') => (BeginsRun \/ Construct)]_vars

\* a run entered with the flag set evaluates its first point in full, is
\* then asked to stop, and its next evaluation raises forced-stop
C27_Witness ==
  /\ run.stopAtEntry
  /\ run.stopDuringRun
  /\ run.evals = 2
  /\ run.simulated = 1
  /\ lastCall.result.thrown = "forced_stop"
  /\ m_Quit

\* a step in which objectiveFunction is called with the flag set
CalledWithFlagSet ==
  /\ m_Quit
  /\ lastCall'.by # "none"
  /\ (lastCall' # lastCall \/ run'.evals # run.evals)

\* C28: an objectiveFunction call that finds the flag set leaves the
\* evaluation counter at its value, appends no progress record and leaves
\* the flag set, also where a counted call would have written a record.
C28_FlaggedCallChangesNothing ==
  /\ [][CalledWithFlagSet
         => /\ lastCall'.Quit
            /\ lastCall'.result.thrown = "forced_stop"
            /\ m_NumObjFcnCalls' = m_NumObjFcnCalls
            /\ log' = log
            /\ m_Quit'
            /\ UNCHANGED <<m_RunNum, NLoptGrowthForm, m_Parameters, m_Est>>]_vars
  /\ [](lastCall.by # "none"
          => \A n \in {0, ProgressPeriod - 1, 2 * ProgressPeriod - 1} :
               LET r == objectiveFunction(lastCall.NLoptDataStruct, lastCall.EstParameters,
                                          lastCall.ext, TRUE, lastCall.GrowthForm, n, m_RunNum)
               IN  r.NumObjFcnCalls = n /\ r.written = <<>> /\ ~r.extracted)

\* a run that counted one evaluation, then a call that found the flag set
C28_Witness ==
  /\ pc = "optimize"
  /\ m_Quit
  /\ lastCall.Quit
  /\ lastCall.result.thrown = "forced_stop"
  /\ m_NumObjFcnCalls = 1
  /\ run.evals = 2
  /\ ~Emitted("progress")

(***************************************************************************)
(* The order of the last outputs of estimateParameters.                    *)
(***************************************************************************)
\* the positions of the records of one kind in the log
Positions(l, kind) == {k \in 1..Len(l) : l[k][1] = kind}

\* a step in which an estimateParameters call ends: after optimize(), or by
\* an exception of the set-up part
EndsRun == (pc = "optimize" /\ pc' = "idle") \/ (BeginsRun /\ pc' = "idle")

\* what the log of an ended call holds: one Stop record, in the last
\* position, and at most one RunCompleted, before it, carrying the summary
\* built from the members decoded from the final vector
EndedInOrder ==
  /\ Cardinality(Positions(log', "Stop")) = 1
  /\ Len(log') \in Positions(log', "Stop")
  /\ Cardinality(Positions(log', "RunCompleted")) <= 1
  /\ \A k \in Positions(log', "RunCompleted") :
       /\ k = Len(log') - 1
       /\ m_Est' = extractParameters(run'.NLoptStruct, m_Parameters', m_Est)
       /\ log'[k][2].bestFitness
            = createOutputStr(run'.NLoptStruct.TotalNumberParameters, Len(m_Parameters'),
                              run'.NLoptStruct.BeesNumRepetitions, run'.minf, 0,
                              run'.NLoptStruct, m_Est', <<>>)
       /\ log'[Len(log')][2].fitness = log'[k][2].bestFitness

\* the records are in the claimed order in every call that reaches optimize()
C29_OrderAfterOptimize ==
  [][(pc = "optimize" /\ pc' = "idle") => EndedInOrder]_vars

\* C29: in every run the Stop record is written exactly once, as the last
\* action of estimateParameters, and RunCompleted is emitted at most once,
\* before the Stop record and after the final vector has been decoded and
\* the summary built.
C29_StopOnceAndLast ==
  [][EndsRun => EndedInOrder]_vars

(***************************************************************************)
(* The beta::guilds listing of the summary.                                *)
(***************************************************************************)
\* a step that ends a run whose summary was built, with a competition form
\* that has a beta-guilds matrix
SummarisesBetaGuilds ==
  /\ pc = "optimize" /\ pc' = "idle"
  /\ run'.failure = "none"
  /\ run'.NLoptStruct.CompetitionForm \in {"MS-PROD", "AGG-PROD"}

\* the listings of the summary that follow the beta::guilds call of 706:
\* the last competition listing
BetaGuildsListing(summary, d) ==
  summary.listings[1 + (IF d.GrowthForm = "Logistic" THEN 2 ELSE 0)
                     + (IF d.HarvestForm = "Effort (qE)" THEN 1 ELSE 0)
                     + (IF d.CompetitionForm = "MS-PROD" THEN 2 ELSE 1)]

\* the listing written by line 706 holds the beta-species members
C30_ListsBetaSpecies ==
  [][SummarisesBetaGuilds
     => BetaGuildsListing(run'.bestFitnessStr, run'.NLoptStruct)
          = convertValues2DToOutputStr("Competition (beta::guilds)",
                                       m_Est'.competitionBetaSpecies)]_vars

\* C30: for MS-PROD and AGG-PROD the "Competition (beta::guilds)" listing
\* of the completion summary holds the entries of the beta-guilds matrix
\* decoded from the final vector, the values getEstCompetitionBetaGuilds
\* returns.
C30_ListsBetaGuilds ==
  [][SummarisesBetaGuilds
     => LET l == BetaGuildsListing(run'.bestFitnessStr, run'.NLoptStruct)
        IN  /\ l.label = "Competition (beta::guilds)"
            /\ l.values = m_Est'.competitionBetaGuilds]_vars

=============================================================================
